---- MODULE Spec2Model ----
(***************************************************************************)
(* A model of the calculator demo in src/main.py: the Calculator class,    *)
(* the self-test runner run_tests(), the interactive loop repl() and the   *)
(* dispatcher main().                                                      *)
(*                                                                         *)
(* Text is modelled as sequences of one-character strings.  Numbers are    *)
(* Python floats, modelled as records: a finite value is the exact         *)
(* rational n/d in lowest terms with d > 0, the two infinities have        *)
(* t = "inf" and n = 1 or -1, and not-a-number has t = "nan".  Rounding    *)
(* of IEEE-754 doubles and the sign of zero are not modelled.              *)
(***************************************************************************)
EXTENDS Integers, Sequences, FiniteSets, TLC

(***************************************************************************)
(* Bounds of the model.                                                    *)
(***************************************************************************)
\* Number of input events (lines, end-of-input, interrupt) one REPL run reads.
MaxLines == 3

(***************************************************************************)
(* Numbers.                                                                *)
(***************************************************************************)
Abs(x) == IF x < 0 THEN -x ELSE x

RECURSIVE Gcd(_, _)
Gcd(x, y) == IF y = 0 THEN x ELSE Gcd(y, x % y)

\* The finite float n/d (d # 0), in lowest terms with a positive denominator.
Fin(n, d) ==
    LET g == Gcd(Abs(n), Abs(d))
        s == IF d < 0 THEN -1 ELSE 1
    IN  [t |-> "fin", n |-> s * (n \div g), d |-> s * (d \div g)]

Inf(s) == [t |-> "inf", n |-> s, d |-> 0]
NaN == [t |-> "nan", n |-> 0, d |-> 0]
\* The payload of an output line that carries no number.
NoVal == [t |-> "none", n |-> 0, d |-> 0]

Sign(x) == IF x.n < 0 THEN -1 ELSE IF x.n > 0 THEN 1 ELSE 0

\* Python's a + b on floats.
FAdd(a, b) ==
    IF a.t = "nan" \/ b.t = "nan" THEN NaN
    ELSE IF a.t = "inf" /\ b.t = "inf" THEN (IF a.n = b.n THEN a ELSE NaN)
    ELSE IF a.t = "inf" THEN a
    ELSE IF b.t = "inf" THEN b
    ELSE Fin(a.n * b.d + b.n * a.d, a.d * b.d)

\* Python's -b on floats.
FNeg(b) == IF b.t = "nan" THEN NaN ELSE [b EXCEPT !.n = -b.n]

\* Python's a - b on floats.
FSub(a, b) == FAdd(a, FNeg(b))

\* Python's a * b on floats.
FMul(a, b) ==
    IF a.t = "nan" \/ b.t = "nan" THEN NaN
    ELSE IF a.t = "inf" \/ b.t = "inf"
         THEN (IF Sign(a) * Sign(b) = 0 THEN NaN ELSE Inf(Sign(a) * Sign(b)))
    ELSE Fin(a.n * b.n, a.d * b.d)

\* Python's a == 0 on floats.
IsZero(b) == b.t = "fin" /\ b.n = 0

\* Python's a / b on floats, for a divisor that is not zero.
FQuot(a, b) ==
    IF a.t = "nan" \/ b.t = "nan" THEN NaN
    ELSE IF a.t = "inf" /\ b.t = "inf" THEN NaN
    ELSE IF a.t = "inf" THEN Inf(Sign(a) * (IF Sign(b) < 0 THEN -1 ELSE 1))
    ELSE IF b.t = "inf" THEN Fin(0, 1)
    ELSE Fin(a.n * b.d, a.d * b.n)

\* Python's abs(x) on floats.
FAbs(x) == IF x.t = "nan" THEN NaN ELSE [x EXCEPT !.n = Abs(x.n)]

(***************************************************************************)
(* class Calculator.  A call returns the value, or raises: exc names the   *)
(* exception raised ("none" when the call returns).                        *)
(***************************************************************************)
Return(v) == [exc |-> "none", v |-> v]
Raise(e) == [exc |-> e, v |-> NoVal]

add(a, b) == Return(FAdd(a, b))

sub(a, b) == Return(FSub(a, b))

mul(a, b) == Return(FMul(a, b))

\* Python's a / b: a zero divisor raises ZeroDivisionError.
TrueDiv(a, b) == IF IsZero(b) THEN Raise("ZeroDivisionError") ELSE Return(FQuot(a, b))

\* A variant of div that tests the dividend instead of the divisor.
div_zeroDividend(a, b) ==
    IF IsZero(a) THEN Raise("ZeroDivisionError") ELSE TrueDiv(a, b)

div(a, b) == IF IsZero(b) THEN Raise("ZeroDivisionError") ELSE TrueDiv(a, b)

(***************************************************************************)
(* Text: str.strip, str.lower, str.split and float(str).                   *)
(***************************************************************************)
Whitespace == {" ", "\t"}
Digits == <<"0", "1", "2", "3", "4", "5", "6", "7", "8", "9">>
UpperCase == <<"A", "B", "C", "D", "E", "F", "G", "H", "I", "J", "K", "L", "M",
               "N", "O", "P", "Q", "R", "S", "T", "U", "V", "W", "X", "Y", "Z">>
LowerCase == <<"a", "b", "c", "d", "e", "f", "g", "h", "i", "j", "k", "l", "m",
               "n", "o", "p", "q", "r", "s", "t", "u", "v", "w", "x", "y", "z">>

IsDigit(c) == \E i \in DOMAIN Digits : Digits[i] = c
DigitVal(c) == (CHOOSE i \in DOMAIN Digits : Digits[i] = c) - 1

\* str.lower() on one character.
LowerChar(c) ==
    IF \E i \in DOMAIN UpperCase : UpperCase[i] = c
    THEN LowerCase[CHOOSE i \in DOMAIN UpperCase : UpperCase[i] = c]
    ELSE c

\* str.lower()
lower(s) == [i \in DOMAIN s |-> LowerChar(s[i])]

RECURSIVE lstrip(_)
lstrip(s) == IF s # <<>> /\ Head(s) \in Whitespace THEN lstrip(Tail(s)) ELSE s

RECURSIVE rstrip(_)
rstrip(s) ==
    IF s # <<>> /\ s[Len(s)] \in Whitespace THEN rstrip(SubSeq(s, 1, Len(s) - 1)) ELSE s

\* str.strip()
strip(s) == rstrip(lstrip(s))

\* Length of the longest prefix of s without whitespace.
RECURSIVE WordLen(_)
WordLen(s) == IF s = <<>> \/ Head(s) \in Whitespace THEN 0 ELSE 1 + WordLen(Tail(s))

\* str.split() without arguments: the maximal runs of non-whitespace characters.
RECURSIVE split(_)
split(s) ==
    LET r == lstrip(s)
    IN  IF r = <<>> THEN <<>>
        ELSE <<SubSeq(r, 1, WordLen(r))>> \o split(SubSeq(r, WordLen(r) + 1, Len(r)))

\* Length of the longest prefix of s made of digits.
RECURSIVE DigitRun(_)
DigitRun(s) == IF s = <<>> \/ ~IsDigit(Head(s)) THEN 0 ELSE 1 + DigitRun(Tail(s))

\* The number written by a sequence of digits (0 for none).
RECURSIVE DigitsValue(_)
DigitsValue(s) ==
    IF s = <<>> THEN 0
    ELSE 10 * DigitsValue(SubSeq(s, 1, Len(s) - 1)) + DigitVal(s[Len(s)])

RECURSIVE Pow10(_)
Pow10(k) == IF k = 0 THEN 1 ELSE 10 * Pow10(k - 1)

Drop(s, k) == SubSeq(s, k + 1, Len(s))

\* float(s): a record with ok = FALSE when ValueError is raised.  Covers the
\* literals  [sign] (digits [. [digits]] | . digits) [(e|E) [sign] digits]  and
\* [sign] (inf | infinity | nan), letter case ignored, surrounding whitespace
\* stripped.  The operators below scan the literal from left to right.
ValueError == [ok |-> FALSE, v |-> NoVal]
Parsed(v) == [ok |-> TRUE, v |-> v]

\* sgn * mant * 10^e
Scaled(sgn, mant, e) ==
    IF e >= 0 THEN Parsed(Fin(sgn * mant * Pow10(e), 1))
    ELSE Parsed(Fin(sgn * mant, Pow10(-e)))

\* ds: the text after the exponent's sign, which must be digits, at least one.
ExponentValue(sgn, digits, nf, esgn, ds) ==
    IF ds = <<>> \/ DigitRun(ds) # Len(ds) THEN ValueError
    ELSE Scaled(sgn, DigitsValue(digits), esgn * DigitsValue(ds) - nf)

\* rest: the text after the e or E.
ExponentSign(sgn, digits, nf, rest) ==
    IF rest # <<>> /\ Head(rest) \in {"+", "-"}
    THEN ExponentValue(sgn, digits, nf, IF Head(rest) = "-" THEN -1 ELSE 1, Tail(rest))
    ELSE ExponentValue(sgn, digits, nf, 1, rest)

\* digits: the digits of the integer and fraction parts, nf of them after the
\* point; rest: the text after them.
Exponent(sgn, digits, nf, rest) ==
    IF digits = <<>> THEN ValueError
    ELSE IF rest = <<>> THEN Scaled(sgn, DigitsValue(digits), -nf)
    ELSE IF Head(rest) \notin {"e", "E"} THEN ValueError
    ELSE ExponentSign(sgn, digits, nf, Tail(rest))

\* body[ni + 1] is the point and nf digits follow it.
Fraction(sgn, body, ni, nf) ==
    Exponent(sgn, SubSeq(body, 1, ni) \o SubSeq(body, ni + 2, ni + 1 + nf), nf,
             Drop(body, ni + 1 + nf))

\* body starts with ni digits.
Mantissa(sgn, body, ni) ==
    IF Len(body) > ni /\ body[ni + 1] = "."
    THEN Fraction(sgn, body, ni, DigitRun(Drop(body, ni + 1)))
    ELSE Exponent(sgn, SubSeq(body, 1, ni), 0, Drop(body, ni))

\* body: the literal after its sign.
Unsigned(sgn, body) ==
    IF lower(body) \in {<<"i", "n", "f">>, <<"i", "n", "f", "i", "n", "i", "t", "y">>}
    THEN Parsed(Inf(sgn))
    ELSE IF lower(body) = <<"n", "a", "n">> THEN Parsed(NaN)
    ELSE Mantissa(sgn, body, DigitRun(body))

Signed(t) ==
    IF t # <<>> /\ Head(t) \in {"+", "-"}
    THEN Unsigned(IF Head(t) = "-" THEN -1 ELSE 1, Tail(t))
    ELSE Unsigned(1, t)

float(s) == Signed(strip(s))

\* The float equal to the Python int n.
Num(n) == Fin(n, 1)

\* Python's x == y on floats (nan equals nothing).
FEq(x, y) == x.t # "nan" /\ y.t # "nan" /\ x = y

\* Python's x < y on floats (any comparison with nan is False).
FLess(x, y) ==
    IF x.t = "nan" \/ y.t = "nan" THEN FALSE
    ELSE IF x.t = "inf" THEN x.n < 0 /\ ~(y.t = "inf" /\ y.n < 0)
    ELSE IF y.t = "inf" THEN y.n > 0
    ELSE x.n * y.d < y.n * x.d

(***************************************************************************)
(* The input lines the interactive loop is run on.                         *)
(***************************************************************************)
\* ""
L_empty == <<>>
\* "  "
L_blank == <<" ", " ">>
\* "quit"
L_quit == <<"q", "u", "i", "t">>
\* "QUIT"
L_QUIT == <<"Q", "U", "I", "T">>
\* "  Exit "
L_Exit == <<" ", " ", "E", "x", "i", "t", " ">>
\* "exit"
L_exit == <<"e", "x", "i", "t">>
\* "quit now"
L_quit_now == <<"q", "u", "i", "t", " ", "n", "o", "w">>
\* "quitx"
L_quitx == <<"q", "u", "i", "t", "x">>
\* "add 1 2"
L_add_1_2 == <<"a", "d", "d", " ", "1", " ", "2">>
\* "sub 5 3"
L_sub_5_3 == <<"s", "u", "b", " ", "5", " ", "3">>
\* "mul 4 2.5"
L_mul_4_2p5 == <<"m", "u", "l", " ", "4", " ", "2", ".", "5">>
\* "div 7 2"
L_div_7_2 == <<"d", "i", "v", " ", "7", " ", "2">>
\* "div 1 0"
L_div_1_0 == <<"d", "i", "v", " ", "1", " ", "0">>
\* " div -3 0.0"
L_div_m3_0p0 == <<" ", "d", "i", "v", " ", "-", "3", " ", "0", ".", "0">>
\* "mul inf 0"
L_mul_inf_0 == <<"m", "u", "l", " ", "i", "n", "f", " ", "0">>
\* "div 1e1 .5"
L_div_1e1_p5 == <<"d", "i", "v", " ", "1", "e", "1", " ", ".", "5">>
\* "foo x y"
L_foo_x_y == <<"f", "o", "o", " ", "x", " ", "y">>
\* "foo 1 2"
L_foo_1_2 == <<"f", "o", "o", " ", "1", " ", "2">>
\* "ADD 1 2"
L_ADD_1_2 == <<"A", "D", "D", " ", "1", " ", "2">>
\* "add 1"
L_add_1 == <<"a", "d", "d", " ", "1">>
\* "add 1 2 3"
L_add_1_2_3 == <<"a", "d", "d", " ", "1", " ", "2", " ", "3">>
\* "add x 2"
L_add_x_2 == <<"a", "d", "d", " ", "x", " ", "2">>
\* "add 3 y"
L_add_3_y == <<"a", "d", "d", " ", "3", " ", "y">>
\* "sub\tnan 1"
L_sub_nan_1 == <<"s", "u", "b", "\t", "n", "a", "n", " ", "1">>

Lines ==
    {L_empty, L_blank, L_quit, L_QUIT, L_Exit, L_exit, L_quit_now,
     L_quitx, L_add_1_2, L_sub_5_3, L_mul_4_2p5, L_div_7_2, L_div_1_0,
     L_div_m3_0p0, L_mul_inf_0, L_div_1e1_p5, L_foo_x_y, L_foo_1_2,
     L_ADD_1_2, L_add_1, L_add_1_2_3, L_add_x_2, L_add_3_y, L_sub_nan_1}

\* The operand literals of the calc route (argparse applies float to each).
OperandTokens ==
    {<<"0">>,
     <<"1">>,
     <<"2">>,
     <<"3">>,
     <<"1", "0">>,
     <<"2", ".", "5">>,
     <<"-", ".", "5">>,
     <<"1", "e", "1">>,
     <<"i", "n", "f">>,
     <<"n", "a", "n">>}

(***************************************************************************)
(* The Calculator instance in use.  The program constructs the class       *)
(* above (Unmodified); run_tests() is also run against substituted         *)
(* implementations, which add an error to a result or return from          *)
(* div(a, 0) instead of raising.                                           *)
(***************************************************************************)
Unmodified ==
    [add |-> Num(0), sub |-> Num(0), mul |-> Num(0), div |-> Num(0), raises |-> TRUE]

Engines ==
    [add : {Num(0), Num(1), Num(-1)}, sub : {Num(0), Num(1)}, mul : {Num(0), Num(1)},
     div : {Num(0), Fin(1, 2), Fin(-1, 4)}, raises : BOOLEAN]

\* c.<name>(a, b) on the instance c.
Call(c, name, a, b) ==
    IF name = "add" THEN Return(FAdd(add(a, b).v, c.add))
    ELSE IF name = "sub" THEN Return(FAdd(sub(a, b).v, c.sub))
    ELSE IF name = "mul" THEN Return(FAdd(mul(a, b).v, c.mul))
    ELSE LET r == div(a, b)
         IN  IF r.exc = "none" THEN Return(FAdd(r.v, c.div))
             ELSE IF c.raises THEN r
             ELSE Return(Inf(1))

\* The record of one call made on the Calculator, with its outcome r.
CallRec(name, a, b, r) == [op |-> name, a |-> a, b |-> b, r |-> r]

\* The messages the program prints.
UsageMsg == "Usage: <op> <a> <b>   e.g. add 1 2"
UnknownOpMsg == "Unknown op. Use add|sub|mul|div"
OperandsMsg == "Operands must be Nums."
ErrorMsg == "Error:"
BannerMsg == "Calculator REPL. Type 'quit' or 'exit' to stop."
AllPassedMsg == "All tests passed."
TestFailedMsg == "Test failed:"
ExpectedRaiseMsg == "Expected ZeroDivisionError but none was raised."

\* One line written by print().
Line(k) == [k |-> k, v |-> NoVal]
LineV(k, v) == [k |-> k, v |-> v]

\* The classes `except Exception` catches, among those that can be raised here.
IsException(e) == e \in {"ZeroDivisionError", "ValueError", "AssertionError", "UnboundLocalError"}

(***************************************************************************)
(* sample_usage(): the lines printed, the calls made and the exception     *)
(* that leaves the function ("none" when it returns).                      *)
(***************************************************************************)
\* A variant of sample_usage() whose division example divides by zero.
sample_usage_divZero(c) ==
    LET r1 == Call(c, "add", Num(2), Num(3))
        r2 == Call(c, "sub", Num(5), Num(1))
        r3 == Call(c, "mul", Num(4), float(<<"2", ".", "5">>).v)
        r4 == Call(c, "div", Num(10), Num(0))
        head == <<Line("demo_version"), Line("sample_usage"),
                  LineV("2 + 3 =", r1.v), LineV("5 - 1 =", r2.v), LineV("4 * 2.5 =", r3.v)>>
        calls == <<CallRec("add", Num(2), Num(3), r1), CallRec("sub", Num(5), Num(1), r2),
                   CallRec("mul", Num(4), float(<<"2", ".", "5">>).v, r3),
                   CallRec("div", Num(10), Num(0), r4)>>
    IN  IF r4.exc = "none"
        THEN [out |-> head \o <<LineV("10 / 2 =", r4.v)>>, calls |-> calls, exc |-> "none"]
        ELSE IF r4.exc = "ZeroDivisionError"
        THEN [out |-> head \o <<Line("error:")>>, calls |-> calls, exc |-> "none"]
        ELSE [out |-> head, calls |-> calls, exc |-> r4.exc]

sample_usage(c) ==
    LET r1 == Call(c, "add", Num(2), Num(3))
        r2 == Call(c, "sub", Num(5), Num(1))
        r3 == Call(c, "mul", Num(4), float(<<"2", ".", "5">>).v)
        r4 == Call(c, "div", Num(10), Num(2))
        head == <<Line("demo_version"), Line("sample_usage"),
                  LineV("2 + 3 =", r1.v), LineV("5 - 1 =", r2.v), LineV("4 * 2.5 =", r3.v)>>
        calls == <<CallRec("add", Num(2), Num(3), r1), CallRec("sub", Num(5), Num(1), r2),
                   CallRec("mul", Num(4), float(<<"2", ".", "5">>).v, r3),
                   CallRec("div", Num(10), Num(2), r4)>>
    IN  IF r4.exc = "none"
        THEN [out |-> head \o <<LineV("10 / 2 =", r4.v)>>, calls |-> calls, exc |-> "none"]
        ELSE IF r4.exc = "ZeroDivisionError"
        THEN [out |-> head \o <<Line("error:")>>, calls |-> calls, exc |-> "none"]
        ELSE [out |-> head, calls |-> calls, exc |-> r4.exc]

(***************************************************************************)
(* run_tests(): the lines printed, the calls made, the status returned     *)
(* and the exception that leaves the function.                             *)
(***************************************************************************)
Tolerance == float(<<"1", "e", "-", "9">>).v

TestFailed(calls) ==
    [out |-> <<Line(TestFailedMsg)>>, calls |-> calls, status |-> 1, exc |-> "none"]

\* A variant of ExpectRaise that does not notice a div(1, 0) that returns.
ExpectRaise_unchecked(r, calls) ==
    IF r.exc \in {"none", "ZeroDivisionError"}
    THEN [out |-> <<Line(AllPassedMsg)>>, calls |-> calls, status |-> 0, exc |-> "none"]
    ELSE [out |-> <<>>, calls |-> calls, status |-> -1, exc |-> r.exc]

\* The inner try block on the outcome r of c.div(1, 0), and the lines after it.
ExpectRaise(r, calls) ==
    IF r.exc = "none"
    THEN [out |-> <<Line(ExpectedRaiseMsg)>>, calls |-> calls, status |-> 1, exc |-> "none"]
    ELSE IF r.exc = "ZeroDivisionError"
    THEN [out |-> <<Line(AllPassedMsg)>>, calls |-> calls, status |-> 0, exc |-> "none"]
    ELSE [out |-> <<>>, calls |-> calls, status |-> -1, exc |-> r.exc]

run_tests(c) ==
    LET r1 == Call(c, "add", Num(1), Num(2))
        r2 == Call(c, "sub", Num(5), Num(3))
        r3 == Call(c, "mul", Num(3), Num(4))
        r4 == Call(c, "div", Num(7), Num(2))
        r5 == Call(c, "div", Num(1), Num(0))
        k1 == CallRec("add", Num(1), Num(2), r1)
        k2 == CallRec("sub", Num(5), Num(3), r2)
        k3 == CallRec("mul", Num(3), Num(4), r3)
        k4 == CallRec("div", Num(7), Num(2), r4)
        k5 == CallRec("div", Num(1), Num(0), r5)
    IN  IF ~FEq(r1.v, Num(3)) THEN TestFailed(<<k1>>)
        ELSE IF ~FEq(r2.v, Num(2)) THEN TestFailed(<<k1, k2>>)
        ELSE IF ~FEq(r3.v, Num(12)) THEN TestFailed(<<k1, k2, k3>>)
        ELSE IF r4.exc # "none"
        THEN [out |-> <<>>, calls |-> <<k1, k2, k3, k4>>, status |-> -1, exc |-> r4.exc]
        ELSE IF ~FLess(FAbs(FSub(r4.v, float(<<"3", ".", "5">>).v)), Tolerance)
        THEN TestFailed(<<k1, k2, k3, k4>>)
        ELSE ExpectRaise(r5, <<k1, k2, k3, k4, k5>>)

(***************************************************************************)
(* repl(): one iteration of the loop on a line that input() returned.      *)
(* loc holds the function's locals a and b, which keep their values from   *)
(* one iteration to the next (NoVal: not yet assigned).  The result names  *)
(* the lines printed, the calls made, the locals afterwards, whether the   *)
(* loop is left (brk) and the exception that leaves repl().                *)
(***************************************************************************)
Step(out, calls, loc, brk, exc) ==
    [out |-> out, calls |-> calls, loc |-> loc, brk |-> brk, exc |-> exc]

NoLocals == [a |-> NoVal, b |-> NoVal]

\* A variant of IsExit that compares the line without lowering it.
IsExit_caseSensitive(line) == line \in {<<"q", "u", "i", "t">>, <<"e", "x", "i", "t">>}

\* line.lower() in ("quit", "exit")
IsExit(line) == lower(line) \in {<<"q", "u", "i", "t">>, <<"e", "x", "i", "t">>}

\* The handler of ValueError: print the message and continue.
OnValueError(loc) == Step(<<Line(OperandsMsg)>>, <<>>, loc, FALSE, "none")

\* A variant of OnCallRaised that catches ValueError alone.
OnCallRaised_ValueErrorOnly(e, calls, loc) ==
    IF e = "ValueError" THEN Step(<<Line(ErrorMsg)>>, calls, loc, FALSE, "none")
    ELSE Step(<<>>, calls, loc, FALSE, e)

\* The handler `except Exception as e` around the dispatch.
OnCallRaised(e, calls, loc) ==
    IF IsException(e) THEN Step(<<Line(ErrorMsg)>>, calls, loc, FALSE, "none")
    ELSE Step(<<>>, calls, loc, FALSE, e)

\* The if/elif chain on op, inside the try block.
Dispatch(c, op, loc) ==
    LET name == IF op = <<"a", "d", "d">> THEN "add"
                ELSE IF op = <<"s", "u", "b">> THEN "sub"
                ELSE IF op = <<"m", "u", "l">> THEN "mul"
                ELSE IF op = <<"d", "i", "v">> THEN "div"
                ELSE "none"
        r == Call(c, name, loc.a, loc.b)
        calls == <<CallRec(name, loc.a, loc.b, r)>>
    IN  IF name = "none"
        THEN Step(<<Line(UnknownOpMsg)>>, <<>>, loc, FALSE, "none")
        ELSE IF loc.a = NoVal \/ loc.b = NoVal
        THEN OnCallRaised("UnboundLocalError", <<>>, loc)
        ELSE IF r.exc = "none" THEN Step(<<LineV("result", r.v)>>, calls, loc, FALSE, "none")
        ELSE OnCallRaised(r.exc, calls, loc)

\* A variant of Operands that looks at the operation name first.
Operands_opFirst(c, parts, loc) ==
    LET fa == float(parts[2])
        fb == float(parts[3])
    IN  IF parts[1] \notin {<<"a", "d", "d">>, <<"s", "u", "b">>, <<"m", "u", "l">>,
                            <<"d", "i", "v">>}
        THEN Step(<<Line(UnknownOpMsg)>>, <<>>, loc, FALSE, "none")
        ELSE IF ~fa.ok THEN OnValueError(loc)
        ELSE IF ~fb.ok THEN OnValueError([loc EXCEPT !.a = fa.v])
        ELSE Dispatch(c, parts[1], [a |-> fa.v, b |-> fb.v])

\* A variant of Operands whose ValueError handler does not continue: the
\* dispatch follows with the locals as they are.
Operands_noContinue(c, parts, loc) ==
    LET fa == float(parts[2])
        fb == float(parts[3])
        kept == IF ~fa.ok THEN loc ELSE [loc EXCEPT !.a = fa.v]
        d == Dispatch(c, parts[1], kept)
    IN  IF fa.ok /\ fb.ok THEN Dispatch(c, parts[1], [a |-> fa.v, b |-> fb.v])
        ELSE Step(<<Line(OperandsMsg)>> \o d.out, d.calls, d.loc, d.brk, d.exc)

\* The conversion of the two operands, then the dispatch.
Operands(c, parts, loc) ==
    LET fa == float(parts[2])
        fb == float(parts[3])
    IN  IF ~fa.ok THEN OnValueError(loc)
        ELSE IF ~fb.ok THEN OnValueError([loc EXCEPT !.a = fa.v])
        ELSE Dispatch(c, parts[1], [a |-> fa.v, b |-> fb.v])

\* A variant of ReplBody without the test for an empty line.
ReplBody_noEmptyCheck(c, raw, loc) ==
    LET line == strip(raw)
        parts == split(line)
    IN  IF IsExit(line) THEN Step(<<>>, <<>>, loc, TRUE, "none")
        ELSE IF Len(parts) # 3 THEN Step(<<Line(UsageMsg)>>, <<>>, loc, FALSE, "none")
        ELSE Operands(c, parts, loc)

ReplBody(c, raw, loc) ==
    LET line == strip(raw)
        parts == split(line)
    IN  IF line = <<>> THEN Step(<<>>, <<>>, loc, FALSE, "none")
        ELSE IF IsExit(line) THEN Step(<<>>, <<>>, loc, TRUE, "none")
        ELSE IF Len(parts) # 3
        THEN Step(<<Line(UsageMsg)>>, <<>>, loc, FALSE, "none")
        ELSE Operands(c, parts, loc)

\* input() raised e: `except (EOFError, KeyboardInterrupt)` prints a newline and
\* leaves the loop.
OnInputRaised(e, loc) ==
    IF e \in {"EOFError", "KeyboardInterrupt"}
    THEN Step(<<Line("")>>, <<>>, loc, TRUE, "none")
    ELSE Step(<<>>, <<>>, loc, FALSE, e)

(***************************************************************************)
(* main(): the route taken for the parsed arguments.                       *)
(***************************************************************************)
\* A variant of Route that looks at the subcommand before the --test flag.
Route_cmdFirst(args) ==
    IF args.cmd = "calc" THEN "calc"
    ELSE IF args.cmd = "interactive" THEN "interactive"
    ELSE IF args.test THEN "test"
    ELSE "sample"

Route(args) ==
    IF args.test THEN "test"
    ELSE IF args.cmd = "calc" THEN "calc"
    ELSE IF args.cmd = "interactive" THEN "interactive"
    ELSE "sample"

\* A variant of Calc that prints the error to standard output and returns 1.
Calc_exit1(r) ==
    IF r.exc = "none"
    THEN [stdout |-> <<LineV("result", r.v)>>, stderr |-> <<>>, rc |-> 0, exc |-> "none"]
    ELSE IF IsException(r.exc)
    THEN [stdout |-> <<Line(ErrorMsg)>>, stderr |-> <<>>, rc |-> 1, exc |-> "none"]
    ELSE [stdout |-> <<>>, stderr |-> <<>>, rc |-> -1, exc |-> r.exc]

\* The calc route, given the outcome r of the call: the line printed, where,
\* and the value returned.
Calc(r) ==
    IF r.exc = "none"
    THEN [stdout |-> <<LineV("result", r.v)>>, stderr |-> <<>>, rc |-> 0, exc |-> "none"]
    ELSE IF IsException(r.exc)
    THEN [stdout |-> <<>>, stderr |-> <<Line(ErrorMsg)>>, rc |-> 2, exc |-> "none"]
    ELSE [stdout |-> <<>>, stderr |-> <<>>, rc |-> -1, exc |-> r.exc]

(***************************************************************************)
(* The program as a state machine.                                         *)
(***************************************************************************)
VARIABLES
    pc,      \* "main": main() entered, arguments parsed; "repl": reading a line;
             \* "done": main() returned; "crashed": an exception left main()
    args,    \* the Namespace parse_args() returned
    c,       \* the Calculator instance
    stdout,  \* the lines printed to standard output
    stderr,  \* the lines printed to the error stream
    rc,      \* the value main() returned (-1: none)
    calls,   \* the calls made on the Calculator
    loc,     \* the locals of repl()
    hist     \* what the loop read, and what it did for each input

vars == <<pc, args, c, stdout, stderr, rc, calls, loc, hist>>

CalcOps == {"add", "sub", "mul", "div"}
OperandValues == {float(t).v : t \in OperandTokens}

\* The Namespaces parse_args() returns.
Namespaces ==
    [test : BOOLEAN, cmd : {"calc"}, op : CalcOps, a : OperandValues, b : OperandValues]
    \cup [test : BOOLEAN, cmd : {"interactive", "none"}, op : {"none"}, a : {NoVal},
          b : {NoVal}]

InitWith(engines, namespaces) ==
    /\ pc = "main"
    /\ args \in namespaces
    /\ c \in engines
    /\ stdout = <<>>
    /\ stderr = <<>>
    /\ rc = -1
    /\ calls = <<>>
    /\ loc = NoLocals
    /\ hist = <<>>

Init == InitWith({Unmodified}, Namespaces)

\* An exception that leaves main() ends the process with a traceback.
Finish(exc, code) ==
    /\ pc' = IF exc = "none" THEN "done" ELSE "crashed"
    /\ rc' = IF exc = "none" THEN code ELSE -1

MainTest ==
    /\ pc = "main"
    /\ Route(args) = "test"
    /\ LET r == run_tests(c)
       IN  /\ stdout' = stdout \o r.out
           /\ calls' = calls \o r.calls
           /\ Finish(r.exc, r.status)
    /\ UNCHANGED <<args, c, stderr, loc, hist>>

MainCalc ==
    /\ pc = "main"
    /\ Route(args) = "calc"
    /\ LET called == Call(c, args.op, args.a, args.b)
           r == Calc(called)
       IN  /\ stdout' = stdout \o r.stdout
           /\ stderr' = stderr \o r.stderr
           /\ calls' = Append(calls, CallRec(args.op, args.a, args.b, called))
           /\ Finish(r.exc, r.rc)
    /\ UNCHANGED <<args, c, loc, hist>>

MainInteractive ==
    /\ pc = "main"
    /\ Route(args) = "interactive"
    /\ stdout' = Append(stdout, Line(BannerMsg))
    /\ pc' = "repl"
    /\ UNCHANGED <<args, c, stderr, rc, calls, loc, hist>>

MainSample ==
    /\ pc = "main"
    /\ Route(args) = "sample"
    /\ LET r == sample_usage(c)
       IN  /\ stdout' = stdout \o r.out
           /\ calls' = calls \o r.calls
           /\ Finish(r.exc, 0)
    /\ UNCHANGED <<args, c, stderr, loc, hist>>

\* One iteration of the loop, on the input event ev; when the loop is left,
\* repl() returns and main() returns 0.
Iterate(ev, r) ==
    /\ stdout' = stdout \o r.out
    /\ calls' = calls \o r.calls
    /\ loc' = r.loc
    /\ hist' = Append(hist, [ev |-> ev, out |-> r.out, brk |-> r.brk, exc |-> r.exc])
    /\ pc' = IF r.exc # "none" THEN "crashed" ELSE IF r.brk THEN "done" ELSE "repl"
    /\ rc' = IF r.exc = "none" /\ r.brk THEN 0 ELSE rc
    /\ UNCHANGED <<args, c, stderr>>

ReplLine ==
    /\ pc = "repl"
    /\ Len(hist) < MaxLines
    /\ \E raw \in Lines :
          Iterate([exc |-> "none", text |-> raw], ReplBody(c, raw, loc))

ReplInputRaises ==
    /\ pc = "repl"
    /\ Len(hist) < MaxLines
    /\ \E e \in {"EOFError", "KeyboardInterrupt"} :
          Iterate([exc |-> e, text |-> <<>>], OnInputRaised(e, loc))

Next ==
    \/ MainTest
    \/ MainCalc
    \/ MainInteractive
    \/ MainSample
    \/ ReplLine
    \/ ReplInputRaises

Spec == Init /\ [][Next]_vars

(***************************************************************************)
(* run_tests() against every Calculator of Engines: main() with --test.    *)
(***************************************************************************)
InitTests == InitWith(Engines, {n \in Namespaces : n.test})

NextTests == MainTest

SpecTests == InitTests /\ [][NextTests]_vars

(***************************************************************************)
(* Properties.  hist[i].ev is the i-th input of the loop, hist[i].out the  *)
(* lines printed for it, hist[i].brk whether the loop was left on it.      *)
(***************************************************************************)
\* The lines of Lines that are an exit command, and those that are empty
\* after trimming, named one by one.
ExitLines == {L_quit, L_QUIT, L_Exit, L_exit}
EmptyLines == {L_empty, L_blank}
OpNames == {<<"a", "d", "d">>, <<"s", "u", "b">>, <<"m", "u", "l">>, <<"d", "i", "v">>}

IsLine(h) == h.ev.exc = "none"
TokensOf(h) == split(strip(h.ev.text))
\* A line of exactly three tokens whose first token is no operation name.
UnknownOpLine(h) ==
    IsLine(h) /\ h.ev.text \notin ExitLines /\ Len(TokensOf(h)) = 3
    /\ TokensOf(h)[1] \notin OpNames

\* C1 as stated: every line of three tokens whose first token is not one of
\* add/sub/mul/div gets the "Unknown op" message, whatever its operands are, and
\* the loop goes on reading.
C1_UnknownOpWhateverOperands ==
    \A i \in DOMAIN hist :
        UnknownOpLine(hist[i]) =>
            /\ hist[i].out = <<Line(UnknownOpMsg)>>
            /\ ~hist[i].brk

\* C1 amended: such a line gets the "Unknown op" message exactly when its second
\* and third tokens both parse as floats; otherwise it gets the operand-error
\* message, because the operands are converted before the operation name is
\* looked at.  Either way the loop goes on reading.
C1_UnknownOpAfterOperands ==
    \A i \in DOMAIN hist :
        UnknownOpLine(hist[i]) =>
            /\ hist[i].out =
                  IF float(TokensOf(hist[i])[2]).ok /\ float(TokensOf(hist[i])[3]).ok
                  THEN <<Line(UnknownOpMsg)>>
                  ELSE <<Line(OperandsMsg)>>
            /\ ~hist[i].brk
            /\ hist[i].exc = "none"

C1_Witness ==
    /\ Len(hist) = 2
    /\ hist[1].ev.text = L_foo_x_y /\ hist[1].out = <<Line(OperandsMsg)>>
    /\ hist[2].ev.text = L_foo_1_2 /\ hist[2].out = <<Line(UnknownOpMsg)>>
    /\ pc = "repl"

\* C2: the loop is left only on an exit command, on end-of-input or on an
\* interrupt raised by input(); every other line returns the loop to reading,
\* and no line lets an exception out of repl().
C2_LoopLeftOnlyOnExit ==
    /\ pc # "crashed"
    /\ \A i \in DOMAIN hist :
          /\ hist[i].exc = "none"
          /\ hist[i].brk =>
                \/ hist[i].ev.exc \in {"EOFError", "KeyboardInterrupt"}
                \/ IsLine(hist[i]) /\ hist[i].ev.text \in ExitLines
          /\ hist[i].brk => i = Len(hist)
    /\ (hist # <<>> /\ ~hist[Len(hist)].brk) => pc = "repl"

C2_Witness ==
    /\ Len(hist) = 3
    /\ hist[1].ev.text = L_add_3_y
    /\ hist[2].ev.text = L_div_1_0 /\ hist[2].out = <<Line(ErrorMsg)>>
    /\ hist[3].ev.text = L_add_1
    /\ pc = "repl"

\* C3: the calc route makes the one call; when it returns, the result is
\* printed to standard output and main() returns 0; when it raises (div with
\* b = 0), the error is printed to the error stream, nothing to standard output,
\* and main() returns 2.  No other value is returned.
C3_CalcRoute ==
    (Route(args) = "calc" /\ pc # "main") =>
        /\ pc = "done"
        /\ Len(calls) = 1
        /\ calls[1].op = args.op /\ calls[1].a = args.a /\ calls[1].b = args.b
        /\ IF calls[1].r.exc = "none"
           THEN stdout = <<LineV("result", calls[1].r.v)>> /\ stderr = <<>> /\ rc = 0
           ELSE stdout = <<>> /\ stderr = <<Line(ErrorMsg)>> /\ rc = 2
        /\ (args.op = "div" /\ args.b = Num(0)) => rc = 2

C3_Witness ==
    /\ Route(args) = "calc" /\ pc = "done"
    /\ args.op = "div" /\ args.b = Num(0) /\ args.a = Num(10)
    /\ rc = 2

\* The calls run_tests() makes, in order.
TestCalls ==
    <<[op |-> "add", a |-> Num(1), b |-> Num(2)], [op |-> "sub", a |-> Num(5), b |-> Num(3)],
      [op |-> "mul", a |-> Num(3), b |-> Num(4)], [op |-> "div", a |-> Num(7), b |-> Num(2)],
      [op |-> "div", a |-> Num(1), b |-> Num(0)]>>

IsTestCall(k, i) == k.op = TestCalls[i].op /\ k.a = TestCalls[i].a /\ k.b = TestCalls[i].b

\* C4: with --test set, whatever the subcommand, only the self-tests run: main()
\* returns their status, 0 or 1, no calculation with the command line's operands
\* is made, the loop reads nothing and neither the result of a calculation, nor
\* the banner of the loop, nor the sample usage is printed.
C4_TestFlagFirst ==
    (args.test /\ pc # "main") =>
        /\ pc = "done"
        /\ rc \in {0, 1}
        /\ rc = 0 <=> stdout = <<Line(AllPassedMsg)>>
        /\ Len(stdout) = 1
        /\ stdout[1].k \in {AllPassedMsg, TestFailedMsg, ExpectedRaiseMsg}
        /\ stderr = <<>>
        /\ hist = <<>>
        /\ Len(calls) \in 1..5
        /\ \A i \in DOMAIN calls : IsTestCall(calls[i], i)

C4_Witness ==
    /\ args.test /\ args.cmd = "calc" /\ args.op = "div" /\ args.b = Num(0)
    /\ pc = "done"
    /\ rc = 0

\* The result r is the exact sum, difference, product or quotient of the finite
\* operands a and b (fractions compared by cross-multiplication).
IsExact(op, a, b, r) ==
    /\ r.t = "fin"
    /\ op = "add" => r.n * (a.d * b.d) = (a.n * b.d + b.n * a.d) * r.d
    /\ op = "sub" => r.n * (a.d * b.d) = (a.n * b.d - b.n * a.d) * r.d
    /\ op = "mul" => r.n * (a.d * b.d) = (a.n * b.n) * r.d
    /\ op = "div" => r.n * (b.n * a.d) = (a.n * b.d) * r.d

\* C5: every call of div raises ZeroDivisionError exactly when b is zero, and
\* otherwise returns a / b; add, sub and mul never raise and return a + b, a - b
\* and a * b.
C5_EngineArithmetic ==
    \A i \in DOMAIN calls :
        LET k == calls[i]
        IN  /\ k.r.exc \in {"none", "ZeroDivisionError"}
            /\ k.r.exc = "ZeroDivisionError" <=>
                  (k.op = "div" /\ k.b.t = "fin" /\ k.b.n = 0)
            /\ (k.r.exc = "none" /\ k.a.t = "fin" /\ k.b.t = "fin") =>
                  IsExact(k.op, k.a, k.b, k.r.v)

C5_Witness ==
    /\ Len(calls) = 3
    /\ calls[1].op = "div" /\ calls[1].b = Num(0) /\ calls[1].r.exc = "ZeroDivisionError"
    /\ calls[2].op = "div" /\ calls[2].a = Num(10) /\ calls[2].r.v = Num(20)
    /\ calls[3].op = "mul" /\ calls[3].r.v = Num(10)

\* Check i of run_tests() passes on the outcome r of its call.
CheckPasses(i, r) ==
    IF i = 1 THEN r.v = Num(3)
    ELSE IF i = 2 THEN r.v = Num(2)
    ELSE IF i = 3 THEN r.v = Num(12)
    ELSE IF i = 4 THEN FLess(FAbs(FSub(r.v, Fin(7, 2))), Fin(1, 1000000000))
    ELSE r.exc = "ZeroDivisionError"

\* C6: run_tests() makes its checks in the order add, sub, mul, div(7, 2),
\* div(1, 0); the first check that fails ends the run with status 1 and no later
\* call is made; "All tests passed." is printed exactly when the status is 0; the
\* unmodified Calculator gives status 0; a div(1, 0) that returns is a failure.
C6_SelfTests ==
    (pc # "main") =>
        /\ pc = "done"
        /\ Len(calls) \in 1..5
        /\ \A i \in DOMAIN calls :
              /\ IsTestCall(calls[i], i)
              /\ i < Len(calls) => CheckPasses(i, calls[i].r)
        /\ rc \in {0, 1}
        /\ rc = 0 <=> (Len(calls) = 5 /\ CheckPasses(5, calls[5].r))
        /\ rc = 1 <=> ~CheckPasses(Len(calls), calls[Len(calls)].r)
        /\ rc = 0 <=> (\E j \in DOMAIN stdout : stdout[j].k = AllPassedMsg)
        /\ c = Unmodified => rc = 0
        /\ (Len(calls) = 5 /\ calls[5].r.exc = "none") =>
              rc = 1 /\ stdout = <<Line(ExpectedRaiseMsg)>>

C6_Witness ==
    /\ pc = "done"
    /\ Len(calls) = 3
    /\ ~CheckPasses(3, calls[3].r)
    /\ ~c.raises
    /\ rc = 1

\* C7 as stated: with no subcommand and no --test, the sample usage shows each of
\* the four operations, among them a division by zero that the Calculator raises
\* and the function catches and shows, and main() returns 0.
C7_SampleCatchesDivisionByZero ==
    (Route(args) = "sample" /\ pc # "main") =>
        /\ pc = "done"
        /\ rc = 0
        /\ \A op \in CalcOps : \E i \in DOMAIN calls : calls[i].op = op
        /\ \E i \in DOMAIN calls :
              /\ calls[i].op = "div"
              /\ calls[i].b = Num(0)
              /\ calls[i].r.exc = "ZeroDivisionError"
        /\ \E j \in DOMAIN stdout : stdout[j].k = "error:"

\* C7 amended: the sample usage shows one example of each of the four
\* operations, 2 + 3, 5 - 1, 4 * 2.5 and 10 / 2, and main() returns 0.  The
\* division example is guarded by a handler of ZeroDivisionError, but its divisor
\* is 2: no call raises and no error line is printed.
C7_SampleUsage ==
    (Route(args) = "sample" /\ pc # "main") =>
        /\ pc = "done"
        /\ rc = 0
        /\ stderr = <<>>
        /\ Len(calls) = 4
        /\ <<calls[1].op, calls[2].op, calls[3].op, calls[4].op>> =
              <<"add", "sub", "mul", "div">>
        /\ calls[4].a = Num(10) /\ calls[4].b = Num(2)
        /\ \A i \in DOMAIN calls : calls[i].r.exc = "none"
        /\ stdout = <<Line("demo_version"), Line("sample_usage"),
                      LineV("2 + 3 =", Num(5)), LineV("5 - 1 =", Num(4)),
                      LineV("4 * 2.5 =", Num(10)), LineV("10 / 2 =", Num(5))>>

C7_Witness ==
    /\ ~args.test /\ args.cmd = "none"
    /\ pc = "done"
    /\ Len(stdout) = 6

\* C8: a line that is not empty after trimming and is no exit command gets
\* exactly one line of output, the result or one of the four messages; an empty
\* line gets none.  So standard output holds, after the banner, one line for
\* each such line read (and the newline printed when input() raised).
C8_OneOutputPerLine ==
    /\ \A i \in DOMAIN hist :
          IsLine(hist[i]) =>
              /\ Len(hist[i].out) =
                    IF hist[i].ev.text \in EmptyLines \cup ExitLines THEN 0 ELSE 1
              /\ \A j \in DOMAIN hist[i].out :
                    hist[i].out[j].k \in {"result", UsageMsg, UnknownOpMsg, OperandsMsg, ErrorMsg}
    /\ (Route(args) = "interactive" /\ pc # "main") =>
          Len(stdout) =
              1 + Cardinality({i \in DOMAIN hist :
                                  IsLine(hist[i])
                                  /\ hist[i].ev.text \notin EmptyLines \cup ExitLines})
                + Cardinality({i \in DOMAIN hist : ~IsLine(hist[i])})

C8_Witness ==
    /\ Len(hist) = 3
    /\ hist[1].ev.text = L_blank
    /\ hist[2].ev.text = L_div_7_2 /\ hist[2].out = <<LineV("result", Fin(7, 2))>>
    /\ hist[3].ev.text = L_add_1_2_3
    /\ Len(stdout) = 3

\* C9: the loop is left on a line exactly when the whole line, trimmed and
\* without regard to letter case, is quit or exit; then nothing is printed.  When
\* input() raises end-of-input or an interrupt, a newline is printed and the
\* loop is left.  In both cases main() returns 0.
C9_ExitCommands ==
    /\ \A i \in DOMAIN hist :
          /\ IsLine(hist[i]) =>
                /\ hist[i].brk <=> hist[i].ev.text \in ExitLines
                /\ hist[i].brk => hist[i].out = <<>>
          /\ ~IsLine(hist[i]) => hist[i].brk /\ hist[i].out = <<Line("")>>
          /\ hist[i].brk => pc = "done" /\ rc = 0
    /\ (Route(args) = "interactive" /\ pc = "done") =>
          hist # <<>> /\ hist[Len(hist)].brk /\ rc = 0

C9_Witness ==
    /\ Len(hist) = 3
    /\ hist[1].ev.text = L_quit_now /\ ~hist[1].brk
    /\ hist[2].ev.text = L_quitx /\ ~hist[2].brk
    /\ hist[3].ev.text = L_Exit /\ hist[3].brk
    /\ pc = "done"

\* C10: what the loop prints for a line, and whether it goes on, depend on the
\* line alone: they are what a run that reads the line first prints and does,
\* and two occurrences of a line in one run get the same output.
C10_Stateless ==
    /\ \A i \in DOMAIN hist :
          IsLine(hist[i]) =>
              LET fresh == ReplBody(Unmodified, hist[i].ev.text, NoLocals)
              IN  /\ hist[i].out = fresh.out
                  /\ hist[i].brk = fresh.brk
                  /\ hist[i].exc = fresh.exc
    /\ \A i, j \in DOMAIN hist :
          hist[i].ev = hist[j].ev => hist[i].out = hist[j].out /\ hist[i].brk = hist[j].brk

C10_Witness ==
    /\ Len(hist) = 3
    /\ hist[1].ev.text = L_add_x_2
    /\ hist[2].ev.text = L_div_1_0
    /\ hist[3].ev.text = L_add_x_2
    /\ hist[1].out = hist[3].out

====
